---- MODULE Spec2Model ----
(***************************************************************************)
(* Model of the wtf command fixer: the correction engine                   *)
(* (src/corrections.rs), the user override list (src/config.rs and the     *)
(* add/remove/clear/save handlers of src/main.rs), the shell-history       *)
(* reader (src/history.rs) and the fix flow (handle_fix of src/main.rs,    *)
(* prompt_selection of src/ui.rs).                                         *)
(*                                                                         *)
(* A Rust string is a sequence of characters, each character a one-element *)
(* TLA+ string.  "U" stands for a character whose UTF-8 encoding takes two *)
(* bytes (such as e-acute); every other character takes one byte.          *)
(* str::len and the &s[a..b] slices count bytes, chars() counts            *)
(* characters, so both lengths are kept apart.                             *)
(***************************************************************************)
EXTENDS Integers, Sequences, FiniteSets, TLC

VARIABLES
  cmd,            \* find_corrections: the cmd argument
  custom_typos,   \* UserConfig.custom_typos: sequence of <<wrong, correct>>
  common_fixes,   \* commands::get_common_fixes(): sequence of <<typo, fix, reason>>
  result,         \* outcome of the last find_corrections call
  env,            \* platform, environment variables and existing files
  content,        \* text of the history file the history reader is run on
  last_command,   \* outcome of the last get_last_command call
  last_op,        \* the last add/remove/clear/save invocation and how it ended
  last_fix,       \* the last fix invocation: its answers and what it executed
  pc              \* position of the modelled invocation

vars ==
  <<cmd, custom_typos, common_fixes, result, env, content, last_command,
    last_op, last_fix, pc>>

-----------------------------------------------------------------------------
(* Bounds *)

MaxCmdLen == 5
MaxOverrides == 2
MaxLines == 2
MaxFiles == 2
MaxBlankOverrides == 1

-----------------------------------------------------------------------------
(* Strings *)

\* char::len_utf8
Width(c) == IF c = "U" THEN 2 ELSE 1

RECURSIVE ByteLen(_)
\* str::len
ByteLen(s) == IF s = <<>> THEN 0 ELSE Width(Head(s)) + ByteLen(Tail(s))

\* char::is_whitespace
IsWhitespace(c) == c \in {" ", "\t", "\n"}

\* str::starts_with
StartsWith(s, p) == Len(p) <= Len(s) /\ SubSeq(s, 1, Len(p)) = p

\* str::is_char_boundary
IsCharBoundary(s, n) == \E k \in 0..Len(s) : ByteLen(SubSeq(s, 1, k)) = n

\* the number of characters in the first n bytes of s (n a char boundary)
CharsIn(s, n) == CHOOSE k \in 0..Len(s) : ByteLen(SubSeq(s, 1, k)) = n

\* &s[a..b] panics unless a <= b <= s.len() and both are char boundaries
SliceOk(s, a, b) ==
  a <= b /\ b <= ByteLen(s) /\ IsCharBoundary(s, a) /\ IsCharBoundary(s, b)

\* &s[a..b]
Slice(s, a, b) == SubSeq(s, CharsIn(s, a) + 1, CharsIn(s, b))

\* &s[a..]
SliceFrom(s, a) == Slice(s, a, ByteLen(s))

RECURSIVE SkipWhile(_, _)
\* drop the leading characters of s that are (ws = TRUE) or are not whitespace
SkipWhile(s, ws) ==
  IF s # <<>> /\ IsWhitespace(Head(s)) = ws THEN SkipWhile(Tail(s), ws) ELSE s

RECURSIVE split_whitespace(_)
\* str::split_whitespace().collect(): the maximal runs of non-whitespace
split_whitespace(s) ==
  LET t == SkipWhile(s, TRUE)
      rest == SkipWhile(t, FALSE)
  IN IF t = <<>> THEN <<>>
     ELSE <<SubSeq(t, 1, Len(t) - Len(rest))>> \o split_whitespace(rest)

RECURSIVE join(_, _)
\* [&str]::join(sep)
join(parts, sep) ==
  IF parts = <<>> THEN <<>>
  ELSE IF Len(parts) = 1 THEN parts[1]
  ELSE parts[1] \o sep \o join(Tail(parts), sep)

SP == <<" ">>

-----------------------------------------------------------------------------
(* Similarity: strsim::jaro_winkler.  An f64 score is kept as <<n, d, e>>:  *)
(* the exact fraction n/d, and e = 1 when the double the code computes lies *)
(* above the double nearest to n/d (e = 0 when it is that double).          *)

One == <<1, 1, 0>>

\* a < b on f64 scores
FracLess(a, b) ==
  \/ a[1] * b[2] < b[1] * a[2]
  \/ a[1] * b[2] = b[1] * a[2] /\ a[3] < b[3]

Min(x, y) == IF x <= y THEN x ELSE y
Max(x, y) == IF x >= y THEN x ELSE y

\* the first j in the search window of a[i] that holds the same character and
\* is not flagged yet (0 when there is none)
JaroPartner(a, b, i, b_flags) ==
  LET search_range == Max(Max(Len(a), Len(b)) \div 2 - 1, 0)
      min_bound == Max(i - search_range, 1)
      max_bound == Min(Len(b), i + search_range)
      js == {j \in min_bound..max_bound : a[i] = b[j] /\ j \notin b_flags}
  IN IF js = {} THEN 0 ELSE CHOOSE j \in js : \A k \in js : j <= k

RECURSIVE JaroFlags(_, _, _, _, _)
\* the matching loop of generic_jaro: <<a_flags, b_flags>> as index sets
JaroFlags(a, b, i, a_flags, b_flags) ==
  IF i > Len(a) THEN <<a_flags, b_flags>>
  ELSE LET j == JaroPartner(a, b, i, b_flags)
       IN IF j = 0 THEN JaroFlags(a, b, i + 1, a_flags, b_flags)
          ELSE JaroFlags(a, b, i + 1, a_flags \cup {i}, b_flags \cup {j})

RECURSIVE Flagged(_, _, _)
\* the flagged characters of s from index i on, in order
Flagged(s, flags, i) ==
  IF i > Len(s) THEN <<>>
  ELSE (IF i \in flags THEN <<s[i]>> ELSE <<>>) \o Flagged(s, flags, i + 1)

\* strsim::jaro
jaro(a, b) ==
  IF a = <<>> /\ b = <<>> THEN One
  ELSE IF a = <<>> \/ b = <<>> THEN <<0, 1, 0>>
  ELSE LET f == JaroFlags(a, b, 1, {}, {})
           matches == Cardinality(f[1])
           ma == Flagged(a, f[1], 1)
           mb == Flagged(b, f[2], 1)
           transpositions ==
             Cardinality({k \in 1..matches : ma[k] # mb[k]}) \div 2
       IN IF matches = 0 THEN <<0, 1, 0>>
          ELSE << matches * matches * Len(b) + matches * matches * Len(a)
                    + (matches - transpositions) * Len(a) * Len(b),
                  3 * Len(a) * Len(b) * matches, 0 >>

\* the length of the common prefix of a and b, looking at 4 characters at most
prefix_length(a, b) ==
  LET n == Min(4, Min(Len(a), Len(b)))
      ks == {k \in 0..n : SubSeq(a, 1, k) = SubSeq(b, 1, k)}
  IN CHOOSE k \in ks : \A l \in ks : l <= k

\* f64 rounding of sim + 0.1 * p * (1.0 - sim): for sim = 2.5 / 3.0, the
\* double 0.8333333333333334, and p = 1 the sum is 0.8500000000000001, one
\* step above the double 0.85, while the exact value is 17/20
RoundsUp(sim, p) == IF 6 * sim[1] = 5 * sim[2] /\ p = 1 THEN 1 ELSE 0

\* strsim::jaro_winkler
jaro_winkler(a, b) ==
  LET sim == jaro(a, b)
      p == prefix_length(a, b)
  IN IF FracLess(<<7, 10, 0>>, sim)
       THEN <<10 * sim[1] + p * (sim[2] - sim[1]), 10 * sim[2], RoundsUp(sim, p)>>
       ELSE sim

-----------------------------------------------------------------------------
(* The vocabulary and the characters of a command line *)

\* commands::get_common_commands(): the vocabulary of common command names
get_common_commands ==
  << <<"g", "t">>, <<"g", "t", "t">>, <<"g", "t", "g">>, <<"g", "g", "t", "t">>,
     <<"g", "t", "g", "g">>, <<"g", "t", "t", "g">>,
     <<"g", "t", "g", "g", "g">>, <<"t", "g", "g">> >>

Alphabet == {"g", "t", " ", "U"}

\* the characters a token is made of, in a fixed order
TokenChars == <<"g", "t", "U">>

RECURSIVE TokenIndex(_)
\* the number of a token: tokens are counted by length, then by TokenChars
TokenIndex(t) ==
  IF t = <<>> THEN 0
  ELSE Len(TokenChars) * TokenIndex(SubSeq(t, 1, Len(t) - 1))
         + (CHOOSE d \in 1..Len(TokenChars) : TokenChars[d] = t[Len(t)])

RECURSIVE TokenOf(_)
\* the token whose number is n
TokenOf(n) ==
  IF n = 0 THEN <<>>
  ELSE Append(TokenOf((n - 1) \div Len(TokenChars)),
              TokenChars[((n - 1) % Len(TokenChars)) + 1])

RECURSIVE TokensOfLen(_)
\* the number of tokens of at most n characters
TokensOfLen(n) ==
  IF n = 0 THEN 0 ELSE Len(TokenChars) * (TokensOfLen(n - 1) + 1)

RECURSIVE ScoresFrom(_, _)
\* jaro_winkler(token, entry) for each vocabulary entry, in vocabulary order
ScoresFrom(token, commands) ==
  IF commands = <<>> THEN <<>>
  ELSE <<jaro_winkler(token, Head(commands))>> \o ScoresFrom(token, Tail(commands))

RECURSIVE ScoreRows(_, _)
ScoreRows(lo, hi) ==
  IF lo > hi THEN <<>>
  ELSE IF lo = hi THEN <<ScoresFrom(TokenOf(lo), get_common_commands)>>
  ELSE ScoreRows(lo, (lo + hi) \div 2) \o ScoreRows((lo + hi) \div 2 + 1, hi)

\* jaro_winkler is pure: its value for every token of at most MaxCmdLen
\* characters against every vocabulary entry, computed once
ScoreTable == ScoreRows(1, TokensOfLen(MaxCmdLen))

\* jaro_winkler(token, common_cmd), read from ScoreTable
Score(token, common_cmd) ==
  ScoreTable[TokenIndex(token)]
            [CHOOSE k \in 1..Len(get_common_commands) :
               get_common_commands[k] = common_cmd]

-----------------------------------------------------------------------------
(* find_corrections (src/corrections.rs) *)

Correction(fixed_cmd, reason, confidence) ==
  [fixed_cmd |-> fixed_cmd, reason |-> reason, confidence |-> confidence]

CustomReason == <<"custom fix">>

\* format!("similar to '{}'", common_cmd)
SimilarReason(common_cmd) == <<"similar to '">> \o common_cmd \o <<"'">>

\* parts[0]
command(c) == split_whitespace(c)[1]

\* parts[1..].join(" "), or the empty string
args(c) ==
  LET parts == split_whitespace(c)
  IN IF Len(parts) > 1 THEN join(Tail(parts), SP) ELSE <<>>

\* the exact-match test of an override rule
ExactMatch(c, wrong) == c = wrong \/ command(c) = wrong

\* ExactFixed without the test for empty args
ExactFixed_NoArgsTest(c, wrong, correct) ==
  IF c = wrong THEN correct ELSE correct \o SP \o args(c)

\* the replacement on an exact match of an override rule
ExactFixed(c, wrong, correct) ==
  IF c = wrong THEN correct
  ELSE IF args(c) = <<>> THEN correct
  ELSE correct \o SP \o args(c)

\* the prefix test of an override rule, tried when the exact test failed
PrefixMatch(c, wrong) ==
  /\ StartsWith(c, wrong)
  /\ ByteLen(c) > ByteLen(wrong)
  /\ StartsWith(SliceFrom(c, ByteLen(wrong)), SP)

\* PrefixFixed built from the rejoined tokens instead of the remainder
PrefixFixed_Rejoined(c, wrong, correct) == correct \o SP \o args(c)

\* the replacement on a prefix match of an override rule
PrefixFixed(c, wrong, correct) == correct \o SliceFrom(c, ByteLen(wrong))

\* one iteration of the loop over user_config.custom_typos
CustomStep(c, rule) ==
  IF ExactMatch(c, rule[1])
    THEN <<Correction(ExactFixed(c, rule[1], rule[2]), CustomReason, One)>>
  ELSE IF PrefixMatch(c, rule[1])
    THEN <<Correction(PrefixFixed(c, rule[1], rule[2]), CustomReason, One)>>
  ELSE <<>>

RECURSIVE CustomPass(_, _)
\* the loop over user_config.custom_typos
CustomPass(c, typos) ==
  IF typos = <<>> THEN <<>>
  ELSE CustomStep(c, Head(typos)) \o CustomPass(c, Tail(typos))

\* let matched = ...: "true", "false", or "panic" when the one-byte slice
\* after the pattern does not end on a character boundary
matched(c, typo_pattern) ==
  IF command(c) = typo_pattern \/ c = typo_pattern THEN "true"
  ELSE IF StartsWith(c, typo_pattern) /\ ByteLen(c) > ByteLen(typo_pattern)
    THEN IF ~SliceOk(c, ByteLen(typo_pattern), ByteLen(typo_pattern) + 1)
           THEN "panic"
         ELSE IF Slice(c, ByteLen(typo_pattern), ByteLen(typo_pattern) + 1) = SP
           THEN "true"
         ELSE "false"
  ELSE "false"

\* let fixed = ... of the built-in loop
fixed(c, typo_pattern, fix) ==
  IF c = typo_pattern THEN fix
  ELSE IF StartsWith(c, typo_pattern)
    THEN fix \o SliceFrom(c, ByteLen(typo_pattern))
  ELSE IF args(c) = <<>> THEN fix
  ELSE fix \o SP \o args(c)

\* AlreadyAdded that looks at the last candidate only
AlreadyAdded_LastOnly(corrections, f) ==
  corrections # <<>> /\ corrections[Len(corrections)].fixed_cmd = f

\* "Check if not already added"
AlreadyAdded(corrections, f) ==
  \E i \in 1..Len(corrections) : corrections[i].fixed_cmd = f

RECURSIVE BuiltinPass(_, _, _)
\* the loop over get_common_fixes(), started with the override candidates
BuiltinPass(c, fixes, corrections) ==
  IF fixes = <<>> THEN [panic |-> FALSE, list |-> corrections]
  ELSE LET e == Head(fixes)
           m == matched(c, e[1])
           f == fixed(c, e[1], e[2])
       IN IF m = "panic" THEN [panic |-> TRUE, list |-> corrections]
          ELSE IF m = "true" /\ ~AlreadyAdded(corrections, f)
            THEN BuiltinPass(c, Tail(fixes),
                             Append(corrections, Correction(f, e[3], One)))
          ELSE BuiltinPass(c, Tail(fixes), corrections)

\* Accepted without the test against 1.0
Accepted_NoUpperBound(similarity) == FracLess(<<85, 100, 0>>, similarity)

\* Accepted with the lower bound included
Accepted_FromThreshold(similarity) ==
  ~FracLess(similarity, <<85, 100, 0>>) /\ FracLess(similarity, One)

\* similarity > 0.85 && similarity < 1.0
Accepted(similarity) ==
  FracLess(<<85, 100, 0>>, similarity) /\ FracLess(similarity, One)

\* one iteration of the loop over get_common_commands()
FuzzyStep(c, common_cmd) ==
  LET similarity == Score(command(c), common_cmd)
  IN IF Accepted(similarity)
       THEN <<Correction(IF args(c) = <<>> THEN common_cmd
                         ELSE common_cmd \o SP \o args(c),
                         SimilarReason(common_cmd), similarity)>>
       ELSE <<>>

RECURSIVE FuzzyLoop(_, _)
FuzzyLoop(c, commands) ==
  IF commands = <<>> THEN <<>>
  ELSE FuzzyStep(c, Head(commands)) \o FuzzyLoop(c, Tail(commands))

\* FuzzyPass without the is_empty test
FuzzyPass_Always(c, commands, corrections) ==
  corrections \o FuzzyLoop(c, commands)

\* FuzzyPass that tests the override candidates only
FuzzyPass_NoOverride(c, commands, corrections) ==
  IF \A i \in 1..Len(corrections) : corrections[i].reason # CustomReason
    THEN corrections \o FuzzyLoop(c, commands)
    ELSE corrections

\* if corrections.is_empty() { fuzzy matching }
FuzzyPass(c, commands, corrections) ==
  IF corrections = <<>> THEN FuzzyLoop(c, commands) ELSE corrections

RECURSIVE InsertSorted_BeforeEqual(_, _)
\* InsertSorted that puts x in front of the elements of equal confidence
InsertSorted_BeforeEqual(sorted, x) ==
  IF sorted = <<>> THEN <<x>>
  ELSE IF ~FracLess(x.confidence, Head(sorted).confidence)
    THEN <<x>> \o sorted
  ELSE <<Head(sorted)>> \o InsertSorted_BeforeEqual(Tail(sorted), x)

RECURSIVE InsertSorted(_, _)
\* x goes behind every element whose confidence is not smaller
InsertSorted(sorted, x) ==
  IF sorted = <<>> THEN <<x>>
  ELSE IF FracLess(Head(sorted).confidence, x.confidence)
    THEN <<x>> \o sorted
  ELSE <<Head(sorted)>> \o InsertSorted(Tail(sorted), x)

RECURSIVE SortFrom(_, _)
SortFrom(sorted, rest) ==
  IF rest = <<>> THEN sorted
  ELSE SortFrom(InsertSorted(sorted, Head(rest)), Tail(rest))

\* corrections.sort_by(|a, b| b.confidence.partial_cmp(&a.confidence)): stable
sort_by_confidence(corrections) == SortFrom(<<>>, corrections)

MaxSuggestions == 5

\* corrections.truncate(5)
truncate(corrections) ==
  IF Len(corrections) > MaxSuggestions
    THEN SubSeq(corrections, 1, MaxSuggestions)
    ELSE corrections

None == [kind |-> "None", list |-> <<>>]
Some(l) == [kind |-> "Some", list |-> l]
Panicked == [kind |-> "Panic", list |-> <<>>]

\* find_corrections that wraps the list in Some even when it is empty
find_corrections_SomeEmpty(c, typos, fixes, commands) ==
  IF split_whitespace(c) = <<>> THEN None
  ELSE LET builtin == BuiltinPass(c, fixes, CustomPass(c, typos))
           corrections ==
             truncate(sort_by_confidence(FuzzyPass(c, commands, builtin.list)))
       IN IF builtin.panic THEN Panicked ELSE Some(corrections)

find_corrections(c, typos, fixes, commands) ==
  IF split_whitespace(c) = <<>> THEN None
  ELSE LET builtin == BuiltinPass(c, fixes, CustomPass(c, typos))
           corrections ==
             truncate(sort_by_confidence(FuzzyPass(c, commands, builtin.list)))
       IN IF builtin.panic THEN Panicked
          ELSE IF corrections = <<>> THEN None
          ELSE Some(corrections)

-----------------------------------------------------------------------------
(* get_last_command (src/history.rs) *)

Ok(v) == [ok |-> TRUE, val |-> v, err |-> ""]
Err(e) == [ok |-> FALSE, val |-> <<>>, err |-> e]

\* Option values: <<>> is None, <<v>> is Some(v)
IsSome(o) == o # <<>>

RECURSIVE lines(_)
\* str::lines(): the text between line feeds; a last line need not end in one
lines(text) ==
  IF text = <<>> THEN <<>>
  ELSE LET nl == {k \in 1..Len(text) : text[k] = "\n"}
       IN IF nl = {} THEN <<text>>
          ELSE LET k == CHOOSE k \in nl : \A l \in nl : k <= l
               IN <<SubSeq(text, 1, k - 1)>> \o lines(SubSeq(text, k + 1, Len(text)))

RECURSIVE trim_end(_)
trim_end(s) ==
  IF s # <<>> /\ IsWhitespace(s[Len(s)]) THEN trim_end(SubSeq(s, 1, Len(s) - 1))
  ELSE s

\* str::trim
trim(s) == trim_end(SkipWhile(s, TRUE))

Digits == {"0", "1"}

\* the number of leading digits of s
DigitRun(s) ==
  LET ks == {k \in 0..Len(s) : \A i \in 1..k : s[i] \in Digits}
  IN CHOOSE k \in ks : \A l \in ks : l <= k

\* Regex ^: \d+:\d+;(.+)$ : group 1 as Some(text), or None without a match
TimestampCapture(line) ==
  LET a == SubSeq(line, 3, Len(line))
      d1 == DigitRun(a)
      b == SubSeq(a, d1 + 2, Len(a))
      d2 == DigitRun(b)
      rest == SubSeq(b, d2 + 2, Len(b))
  IN IF /\ StartsWith(line, <<":", " ">>)
        /\ d1 >= 1 /\ Len(a) > d1 /\ a[d1 + 1] = ":"
        /\ d2 >= 1 /\ Len(b) > d2 /\ b[d2 + 1] = ";"
        /\ rest # <<>>
       THEN <<rest>>
       ELSE <<>>

CmdField == <<"-", " ", "c", "m", "d", ":", " ">>

\* Regex - cmd: (.+) : group 1 of the leftmost match, or None
FishCapture(line) ==
  LET ks == {k \in 1..(Len(line) - Len(CmdField)) :
               SubSeq(line, k, k + Len(CmdField) - 1) = CmdField}
  IN IF ks = {} THEN <<>>
     ELSE LET k == CHOOSE k \in ks : \A l \in ks : k <= l
          IN <<SubSeq(line, k + Len(CmdField), Len(line))>>

wtf == <<"w", "t", "f">>

\* parse_powershell_history that returns the last line
parse_powershell_history_Last(text) ==
  LET ls == lines(text)
  IN IF Len(ls) < 2 THEN Err("Not enough history")
     ELSE Ok(trim(ls[Len(ls)]))

parse_powershell_history(text) ==
  LET ls == lines(text)
  IN IF Len(ls) < 2 THEN Err("Not enough history")
     ELSE Ok(trim(ls[Len(ls) - 1]))

\* the command a bash/zsh line stands for
BashLineCmd(line) ==
  IF IsSome(TimestampCapture(line)) THEN TimestampCapture(line)[1] ELSE trim(line)

\* !cmd.starts_with("wtf") && !cmd.is_empty()
Valid(c) == ~StartsWith(c, wtf) /\ c # <<>>

\* parse_bash_zsh_history that scans from the oldest line
parse_bash_zsh_history_Oldest(text) ==
  LET ls == lines(text)
      good == {k \in 1..Len(ls) : Valid(BashLineCmd(ls[k]))}
  IN IF ls = <<>> THEN Err("Empty history")
     ELSE IF good = {} THEN Err("No valid command found in history")
     ELSE Ok(BashLineCmd(ls[CHOOSE k \in good : \A l \in good : k <= l]))

parse_bash_zsh_history(text) ==
  LET ls == lines(text)
      good == {k \in 1..Len(ls) : Valid(BashLineCmd(ls[k]))}
  IN IF ls = <<>> THEN Err("Empty history")
     ELSE IF good = {} THEN Err("No valid command found in history")
     ELSE Ok(BashLineCmd(ls[CHOOSE k \in good : \A l \in good : l <= k]))

\* parse_fish_history that does not pass over wtf invocations
parse_fish_history_NoWtfTest(text) ==
  LET ls == lines(text)
      good == {k \in 1..Len(ls) :
                 /\ IsSome(FishCapture(ls[k]))
                 /\ trim(FishCapture(ls[k])[1]) # <<>>}
  IN IF good = {} THEN Err("No valid command found in history")
     ELSE Ok(trim(FishCapture(ls[CHOOSE k \in good : \A l \in good : l <= k])[1]))

parse_fish_history(text) ==
  LET ls == lines(text)
      good == {k \in 1..Len(ls) :
                 /\ IsSome(FishCapture(ls[k]))
                 /\ Valid(trim(FishCapture(ls[k])[1]))}
  IN IF good = {} THEN Err("No valid command found in history")
     ELSE Ok(trim(FishCapture(ls[CHOOSE k \in good : \A l \in good : l <= k])[1]))

\* char::to_lowercase on the letters that occur in the paths and in the
\* answers to the selection prompt
Lower(c) ==
  CASE c = "C" -> "c" [] c = "H" -> "h" [] c = "M" -> "m" [] c = "W" -> "w"
    [] c = "P" -> "p" [] c = "S" -> "s" [] c = "R" -> "r" [] c = "L" -> "l"
    [] c = "Z" -> "z" [] c = "A" -> "a" [] c = "N" -> "n" [] c = "O" -> "o"
    [] OTHER -> c

to_lowercase(s) == [i \in 1..Len(s) |-> Lower(s[i])]

\* str::contains
contains(s, sub) ==
  \E k \in 1..(Len(s) - Len(sub) + 1) : SubSeq(s, k, k + Len(sub) - 1) = sub

\* detect_shell_type that tests for zsh before fish
detect_shell_type_ZshFirst(path) ==
  LET path_str == to_lowercase(path)
  IN IF contains(path_str, <<"p", "o", "w", "e", "r", "s", "h", "e", "l", "l">>)
        \/ contains(path_str, <<"c", "o", "n", "s", "o", "l", "e", "h", "o", "s", "t", "_", "h", "i", "s", "t", "o", "r", "y">>)
       THEN "PowerShell"
     ELSE IF contains(path_str, <<"z", "s", "h">>) THEN "Zsh"
     ELSE IF contains(path_str, <<"f", "i", "s", "h">>) THEN "Fish"
     ELSE "Bash"

detect_shell_type(path) ==
  LET path_str == to_lowercase(path)
  IN IF contains(path_str, <<"p", "o", "w", "e", "r", "s", "h", "e", "l", "l">>)
        \/ contains(path_str, <<"c", "o", "n", "s", "o", "l", "e", "h", "o", "s", "t", "_", "h", "i", "s", "t", "o", "r", "y">>)
       THEN "PowerShell"
     ELSE IF contains(path_str, <<"f", "i", "s", "h">>) THEN "Fish"
     ELSE IF contains(path_str, <<"z", "s", "h">>) THEN "Zsh"
     ELSE "Bash"

\* PathBuf::join with the separator of the platform
JoinPath(dir, sep, name) == dir \o sep \o name

\* %APPDATA%\Microsoft\Windows\PowerShell\PSReadLine\ConsoleHost_history.txt
ps_history(appdata) ==
  JoinPath(appdata, <<"\\">>,
    <<"M", "i", "c", "r", "o", "s", "o", "f", "t", "\\", "W", "i", "n", "d", "o", "w", "s", "\\", "P", "o", "w", "e", "r", "S", "h", "e", "l", "l", "\\", "P", "S", "R", "e", "a", "d", "L", "i", "n", "e", "\\", "C", "o", "n", "s", "o", "l", "e", "H", "o", "s", "t", "_", "h", "i", "s", "t", "o", "r", "y", ".", "t", "x", "t">>)

\* ~/.zsh_history, ~/.bash_history, ~/.local/share/fish/fish_history
possible_paths(home) ==
  << JoinPath(home, <<"/">>, <<".", "z", "s", "h", "_", "h", "i", "s", "t", "o", "r", "y">>),
     JoinPath(home, <<"/">>, <<".", "b", "a", "s", "h", "_", "h", "i", "s", "t", "o", "r", "y">>),
     JoinPath(home, <<"/">>, <<".", "l", "o", "c", "a", "l", "/", "s", "h", "a", "r", "e", "/", "f", "i", "s", "h", "/", "f", "i", "s", "h", "_", "h", "i", "s", "t", "o", "r", "y">>) >>

get_history_path(e) ==
  IF e.windows
    THEN IF IsSome(e.appdata) /\ ps_history(e.appdata[1]) \in e.files
           THEN Ok(ps_history(e.appdata[1]))
           ELSE Err("PowerShell history not found")
  ELSE IF ~IsSome(e.home) THEN Err("Home directory not found")
  ELSE IF IsSome(e.histfile) /\ e.histfile[1] \in e.files
    THEN Ok(e.histfile[1])
  ELSE LET pp == possible_paths(e.home[1])
           found == {k \in 1..Len(pp) : pp[k] \in e.files}
       IN IF found = {} THEN Err("No shell history file found")
          ELSE Ok(pp[CHOOSE k \in found : \A l \in found : k <= l])

Unreadable == <<"unreadable">>

BashStale ==
  "History file is not up to date. Add this to your ~/.bashrc:\nshopt -s histappend\nPROMPT_COMMAND='history -a'"

\* get_last_command that gives the Bash remedy for Zsh files as well
get_last_command_StaleForZsh(e, text) ==
  LET history_path == get_history_path(e)
      shell_type == detect_shell_type(history_path.val)
      parsed ==
        IF shell_type = "PowerShell" THEN parse_powershell_history(text)
        ELSE IF shell_type \in {"Bash", "Zsh"} THEN parse_bash_zsh_history(text)
        ELSE parse_fish_history(text)
  IN IF ~history_path.ok THEN history_path
     ELSE IF history_path.val \notin e.files THEN Err("History file not found")
     ELSE IF text = Unreadable THEN Err("Failed to read history")
     ELSE IF ~parsed.ok /\ shell_type \in {"Bash", "Zsh"} THEN Err(BashStale)
     ELSE parsed

get_last_command(e, text) ==
  LET history_path == get_history_path(e)
      shell_type == detect_shell_type(history_path.val)
      parsed ==
        IF shell_type = "PowerShell" THEN parse_powershell_history(text)
        ELSE IF shell_type \in {"Bash", "Zsh"} THEN parse_bash_zsh_history(text)
        ELSE parse_fish_history(text)
  IN IF ~history_path.ok THEN history_path
     ELSE IF history_path.val \notin e.files THEN Err("History file not found")
     ELSE IF text = Unreadable THEN Err("Failed to read history")
     ELSE IF ~parsed.ok /\ shell_type = "Bash" THEN Err(BashStale)
     ELSE parsed

-----------------------------------------------------------------------------
(* UserConfig (src/config.rs) and the handlers of src/main.rs that change it *)

RECURSIVE retain_other(_, _)
\* custom_typos.retain(|(w, _)| w != wrong)
retain_other(typos, wrong) ==
  IF typos = <<>> THEN <<>>
  ELSE (IF Head(typos)[1] # wrong THEN <<Head(typos)>> ELSE <<>>)
         \o retain_other(Tail(typos), wrong)

\* add_typo without the retain
add_typo_NoRetain(typos, wrong, correct) == Append(typos, <<wrong, correct>>)

\* UserConfig::add_typo
add_typo(typos, wrong, correct) ==
  Append(retain_other(typos, wrong), <<wrong, correct>>)

\* remove_typo that returns true whatever the list held
remove_typo_AlwaysTrue(typos, wrong) ==
  [list |-> retain_other(typos, wrong), removed |-> TRUE]

\* UserConfig::remove_typo: the list afterwards and the returned flag
remove_typo(typos, wrong) ==
  [list |-> retain_other(typos, wrong),
   removed |-> Len(retain_other(typos, wrong)) < Len(typos)]

\* UserConfig::add_from_builtin
add_from_builtin(typos, wrong, correct) ==
  IF ~\E i \in 1..Len(typos) : typos[i][1] = wrong
    THEN Append(typos, <<wrong, correct>>)
    ELSE typos

\* let is_builtin = ... of handle_add
is_builtin(fixes, wrong, correct) ==
  \E i \in 1..Len(fixes) : fixes[i][1] = wrong \/ fixes[i][2] = correct

\* the list handle_add leaves in the configuration
handle_add(typos, fixes, wrong, correct) ==
  IF is_builtin(fixes, wrong, correct)
    THEN add_from_builtin(typos, wrong, correct)
    ELSE add_typo(typos, wrong, correct)

-----------------------------------------------------------------------------
(* Inputs *)

\* every string of at most n characters
StrUpTo(n) == UNION {[1..k -> Alphabet] : k \in 0..n}

\* every sequence over S of at most n elements
SeqUpTo(S, n) == UNION {[1..k -> S] : k \in 0..n}

\* the override rules a user can have added: <<wrong, correct>>
Rules ==
  { << <<"g">>, <<"g", "t">> >>,
    << <<"g", " ", "t">>, <<"g", "t", " ", "t">> >> }

\* the arguments of wtf add and wtf remove
WrongSet == {r[1] : r \in Rules}
CorrectSet == {r[2] : r \in Rules}

\* override rules whose wrong is whitespace only, as wtf add " " gt stores them
BlankRules == { << <<" ">>, <<"g", "t">> >>, << <<" ", " ">>, <<"g", "t">> >> }

\* commands::get_common_fixes(): entries <<typo, fix, reason>> of the static
\* table of common misspellings
FixEntries ==
  { << <<"g">>, <<"t", "g">>, <<"Typo: g -> tg">> >>,
    << <<"g", " ", "t">>, <<"g", "t", " ", "t">>, <<"Typo: g t -> gt t">> >> }

\* the table holds each typo once, in any order
Tables ==
  {t \in SeqUpTo(FixEntries, Cardinality(FixEntries)) :
     \A i, j \in 1..Len(t) : t[i][1] = t[j][1] => i = j}

NotRun == [kind |-> "NotRun", list |-> <<>>]

\* the directories and files of the environment
Homes == { <<"/", "h">>, <<"/", "f", "i", "s", "h", "e", "r">> }
AppDatas == { <<"C", ":", "\\", "A">> }
HistFiles == { <<"/", "h", "/", ".", "h", "i", "s", "t">> }

AllPaths ==
  {ps_history(a) : a \in AppDatas} \cup HistFiles
    \cup UNION {{possible_paths(h)[k] : k \in 1..3} : h \in Homes}

Option(S) == {<<>>} \cup {<<v>> : v \in S}

Envs ==
  {e \in [windows : BOOLEAN, appdata : Option(AppDatas), home : Option(Homes),
          histfile : Option(HistFiles), files : SUBSET AllPaths] :
     Cardinality(e.files) <= MaxFiles}

\* the lines a history file is made of
HistoryLines ==
  { <<"l", "s">>,
    <<"w", "t", "f">>,
    <<>>,
    <<" ", "l", "s", " ">>,
    <<":", " ", "1", ":", "0", ";", "l", "s">>,
    <<":", " ", "1", ":", "0", ";", "w", "t", "f">>,
    <<":", " ", "1", ":", "0", ";">>,
    <<"-", " ", "c", "m", "d", ":", " ", "l", "s">>,
    <<"-", " ", "c", "m", "d", ":", " ", "w", "t", "f">>,
    <<"-", " ", "c", "m", "d", ":", " ", " ">> }

RECURSIVE Unlines(_)
\* the text of a file whose lines each end in a line feed
Unlines(ls) ==
  IF ls = <<>> THEN <<>> ELSE Head(ls) \o <<"\n">> \o Unlines(Tail(ls))

Contents == {Unlines(ls) : ls \in SeqUpTo(HistoryLines, MaxLines)}

\* the history files that wtf save is run on
SaveContents ==
  { Unlines(<< CmdField \o <<"l", "s">> >>), Unlines(<< CmdField \o wtf >>),
    <<>>, Unreadable }

\* the environment of a run that does not read the history
NoEnv ==
  [windows |-> FALSE, appdata |-> <<>>, home |-> <<>>, histfile |-> <<>>,
   files |-> {}]

NotRead == Err("not run")

\* an environment whose history is the fish history of the home directory
FishEnv ==
  [windows |-> FALSE, appdata |-> <<>>, home |-> <<<<"/", "h">>>>, histfile |-> <<>>,
   files |-> {possible_paths(<<"/", "h">>)[3]}]

Op(name, wrong, correct, status, loaded) ==
  [name |-> name, wrong |-> wrong, correct |-> correct, status |-> status,
   loaded |-> loaded]

NoOp == Op("none", <<>>, <<>>, "ok", <<>>)

\* a fix invocation: the -y flag or auto_mode, the line read from the
\* terminal, how the invocation ended and the commands it executed
Fix(auto_yes, input, status, executed) ==
  [auto_yes |-> auto_yes, input |-> input, status |-> status,
   executed |-> executed]

NoFix == Fix(FALSE, <<>>, "not run", <<>>)

------------------------------------------------------------------------------
(* The fix flow: handle_fix (src/main.rs), prompt_selection (src/ui.rs) and   *)
(* execute_command (src/executor.rs)                                          *)

\* the decimal digits, each at the place of its value plus one
DecimalDigits == <<"0", "1", "2", "3", "4", "5", "6", "7", "8", "9">>

DigitValue(c) == (CHOOSE k \in 1..Len(DecimalDigits) : DecimalDigits[k] = c) - 1

IsDigit(c) == \E k \in 1..Len(DecimalDigits) : DecimalDigits[k] = c

RECURSIVE DecimalValue(_)
\* the number a string of digits stands for
DecimalValue(s) ==
  IF s = <<>> THEN 0
  ELSE 10 * DecimalValue(SubSeq(s, 1, Len(s) - 1)) + DigitValue(s[Len(s)])

\* str::parse::<usize>: an optional + sign and at least one digit, as
\* Some(number), or None
parse_usize(s) ==
  LET digits == IF s # <<>> /\ s[1] = "+" THEN Tail(s) ELSE s
  IN IF digits # <<>> /\ \A i \in 1..Len(digits) : IsDigit(digits[i])
       THEN <<DecimalValue(digits)>>
       ELSE <<>>

\* a line that read_line could not read
BadInput == <<"not UTF-8">>

\* prompt_selection(max) on the line input: Some(index) or None
prompt_selection(max, input) ==
  IF input = BadInput THEN <<>>
  ELSE LET trimmed == to_lowercase(trim(input))
           num == parse_usize(trimmed)
       IN IF trimmed = <<"n">> \/ trimmed = <<"n", "o">> THEN <<>>
          ELSE IF IsSome(num) /\ num[1] > 0 /\ num[1] <= max THEN <<num[1] - 1>>
          ELSE IF trimmed = <<>> /\ max > 0 THEN <<0>>
          ELSE <<>>

\* the outcome of one invocation: the result of get_last_command, that of
\* find_corrections, and the record of what was answered and executed
FixRun(last, corrections, fix) ==
  [last |-> last, corrections |-> corrections, fix |-> fix]

\* handle_fix behind the list of candidates: the index is 0 with auto_yes and
\* else the answer to the prompt; exec_ok is the outcome of execute_command
run_selected(auto_yes, input, exec_ok, list, selected) ==
  IF selected = <<>> THEN Fix(auto_yes, input, "cancelled", <<>>)
  ELSE Fix(auto_yes, IF auto_yes THEN <<>> ELSE input,
           IF exec_ok THEN "ok" ELSE "exec failed",
           <<list[selected[1] + 1].fixed_cmd>>)

\* match find_corrections(&last_cmd, user_config)
match_corrections(auto_yes, input, exec_ok, last, corrections) ==
  FixRun(last, corrections,
    IF corrections.kind = "Panic" THEN Fix(auto_yes, <<>>, "panic", <<>>)
    ELSE IF corrections.kind = "None"
      THEN Fix(auto_yes, <<>>, "no suggestions", <<>>)
    ELSE run_selected(auto_yes, input, exec_ok, corrections.list,
                      IF auto_yes THEN <<0>>
                      ELSE prompt_selection(Len(corrections.list), input)))

\* match get_last_command()
match_last_command(auto_yes, input, exec_ok, last, typos, fixes) ==
  IF ~last.ok
    THEN FixRun(last, NotRun, Fix(auto_yes, <<>>, "no last command", <<>>))
    ELSE match_corrections(auto_yes, input, exec_ok, last,
           find_corrections(last.val, typos, fixes, get_common_commands))

\* handle_fix(auto_yes, debug, user_config)
handle_fix(auto_yes, input, exec_ok, e, text, typos, fixes) ==
  match_last_command(auto_yes, input, exec_ok, get_last_command(e, text),
                     typos, fixes)

\* the commands the history ends with when wtf is run
FixCommands ==
  { <<"g">>, <<"g", " ", "t">>, <<"g", "t", "g", "t">>, <<"t", "U">>,
    <<"g", " ", "t", "U">> }

\* the fish history files wtf is run on
FixContents == {Unlines(<< CmdField \o c >>) : c \in FixCommands} \cup {<<>>}

\* the lines the user answers the prompt with; <<>> is the end of the input
Answers ==
  { <<>>, <<"\n">>, <<" ", "\n">>, <<"1", "\n">>, <<" ", "2", " ", "\n">>,
    <<"+", "1", "\n">>, <<"0", "3", "\n">>, <<"0", "\n">>, <<"5", "\n">>,
    <<"6", "\n">>, <<"1", "0", "\n">>, <<"n", "\n">>, <<"N", "O", "\n">>,
    <<"t", "\n">>, BadInput }

------------------------------------------------------------------------------
(* One invocation of wtf without a subcommand and without AI mode *)

InitFix ==
  /\ env \in {FishEnv, NoEnv}
  /\ content \in FixContents
  /\ custom_typos \in SeqUpTo(Rules, MaxOverrides)
  /\ common_fixes \in Tables
  /\ cmd = <<>>
  /\ result = NotRun
  /\ last_command = NotRead
  /\ last_op = NoOp
  /\ last_fix = NoFix
  /\ pc = "start"

\* wtf [-y]
HandleFix(auto_yes, input, exec_ok) ==
  /\ pc = "start"
  /\ \E run \in {handle_fix(auto_yes, input, exec_ok, env, content,
                            custom_typos, common_fixes)} :
       /\ last_command' = run.last
       /\ cmd' = run.last.val
       /\ result' = run.corrections
       /\ last_fix' = run.fix
  /\ pc' = "done"
  /\ UNCHANGED <<custom_typos, common_fixes, env, content, last_op>>

NextFix ==
  \E auto_yes \in BOOLEAN, input \in Answers, exec_ok \in BOOLEAN :
    HandleFix(auto_yes, input, exec_ok)

SpecFix == InitFix /\ [][NextFix]_vars

-----------------------------------------------------------------------------
(* The correction engine on its own *)

InitCorr ==
  /\ cmd \in StrUpTo(MaxCmdLen)
  /\ custom_typos \in SeqUpTo(Rules, MaxOverrides)
  /\ common_fixes \in Tables
  /\ result = NotRun
  /\ env = NoEnv
  /\ content = <<>>
  /\ last_command = NotRead
  /\ last_op = NoOp
  /\ last_fix = NoFix
  /\ pc = "start"

\* FindCorrections that empties the override list it was given
FindCorrections_Consuming ==
  /\ pc = "start"
  /\ result' = find_corrections(cmd, custom_typos, common_fixes,
                                get_common_commands)
  /\ custom_typos' = <<>>
  /\ pc' = "done"
  /\ UNCHANGED <<last_fix, cmd, common_fixes, env, content, last_command, last_op>>

\* find_corrections(&last_cmd, user_config)
FindCorrections ==
  /\ pc = "start"
  /\ result' = find_corrections(cmd, custom_typos, common_fixes,
                                get_common_commands)
  /\ pc' = "done"
  /\ UNCHANGED <<last_fix, cmd, custom_typos, common_fixes, env, content, last_command,
                 last_op>>

NextCorr == FindCorrections

SpecCorr == InitCorr /\ [][NextCorr]_vars

-----------------------------------------------------------------------------
(* The correction engine called twice on the same arguments: the arguments   *)
(* are borrowed immutably and the tables are rebuilt by every call.         *)

\* a second find_corrections(&last_cmd, user_config)
FindCorrectionsAgain ==
  /\ pc = "done"
  /\ result' = find_corrections(cmd, custom_typos, common_fixes,
                                get_common_commands)
  /\ pc' = "again"
  /\ UNCHANGED <<last_fix, cmd, custom_typos, common_fixes, env, content, last_command,
                 last_op>>

NextTwice == FindCorrections \/ FindCorrectionsAgain

SpecTwice == InitCorr /\ [][NextTwice]_vars

-----------------------------------------------------------------------------
(* The correction engine on override lists that also hold whitespace rules *)

InitBlank ==
  /\ cmd \in StrUpTo(MaxCmdLen)
  /\ custom_typos \in SeqUpTo(Rules \cup BlankRules, MaxBlankOverrides)
  /\ common_fixes \in Tables
  /\ result = NotRun
  /\ env = NoEnv
  /\ content = <<>>
  /\ last_command = NotRead
  /\ last_op = NoOp
  /\ last_fix = NoFix
  /\ pc = "start"

SpecBlank == InitBlank /\ [][NextCorr]_vars

-----------------------------------------------------------------------------
(* The history reader on its own *)

InitHist ==
  /\ env \in Envs
  /\ content \in Contents \cup {Unreadable}
  /\ last_command = NotRead
  /\ cmd = <<>>
  /\ custom_typos = <<>>
  /\ common_fixes = <<>>
  /\ result = NotRun
  /\ last_op = NoOp
  /\ last_fix = NoFix
  /\ pc = "start"

\* get_last_command()
GetLastCommand ==
  /\ pc = "start"
  /\ last_command' = get_last_command(env, content)
  /\ pc' = "done"
  /\ UNCHANGED <<last_fix, cmd, custom_typos, common_fixes, result, env, content, last_op>>

NextHist == GetLastCommand

SpecHist == InitHist /\ [][NextHist]_vars

\* C7: a command get_last_command returns does not start with wtf.
C7_NeverReturnsWtf ==
  pc = "done" /\ last_command.ok => ~StartsWith(last_command.val, <<"w", "t", "f">>)

-----------------------------------------------------------------------------
(* The commands that edit the override list, one invocation per step.  Each *)
(* invocation loads the saved list, changes it and saves it; config.save()  *)
(* can fail, and then the saved list stays as it was.                       *)

Init ==
  /\ custom_typos = <<>>
  /\ common_fixes \in Tables
  /\ env = FishEnv
  /\ content = <<>>
  /\ last_command = NotRead
  /\ last_op = NoOp
  /\ cmd = <<>>
  /\ result = NotRun
  /\ last_fix = NoFix
  /\ pc = "start"

\* wtf add <wrong> <correct>
HandleAdd(wrong, correct, saved) ==
  /\ custom_typos' =
       IF saved THEN handle_add(custom_typos, common_fixes, wrong, correct)
       ELSE custom_typos
  /\ last_op' = Op("add", wrong, correct,
                   IF saved THEN "ok" ELSE "save failed", custom_typos)
  /\ UNCHANGED <<last_fix, cmd, common_fixes, result, env, content, last_command, pc>>

\* wtf remove <wrong>
HandleRemove(wrong, saved) ==
  LET r == remove_typo(custom_typos, wrong)
  IN /\ custom_typos' = IF r.removed /\ saved THEN r.list ELSE custom_typos
     /\ last_op' = Op("remove", wrong, <<>>,
                      IF ~r.removed THEN "not found"
                      ELSE IF saved THEN "ok" ELSE "save failed",
                      custom_typos)
     /\ UNCHANGED <<last_fix, cmd, common_fixes, result, env, content, last_command, pc>>

\* wtf clear
HandleClear(saved) ==
  /\ custom_typos' = IF saved THEN <<>> ELSE custom_typos
  /\ last_op' = Op("clear", <<>>, <<>>,
                   IF saved THEN "ok" ELSE "save failed", custom_typos)
  /\ UNCHANGED <<last_fix, cmd, common_fixes, result, env, content, last_command, pc>>

\* wtf save <correct>, run when the history file holds text
HandleSave(correct, text, saved) ==
  LET last == get_last_command(env, text)
  IN /\ last_command' = last
     /\ custom_typos' =
          IF last.ok /\ saved THEN add_typo(custom_typos, last.val, correct)
          ELSE custom_typos
     /\ last_op' = Op("save", last.val, correct,
                      IF ~last.ok THEN "no last command"
                      ELSE IF saved THEN "ok" ELSE "save failed",
                      custom_typos)
     /\ UNCHANGED <<last_fix, cmd, common_fixes, result, env, content, pc>>

Next ==
  \/ \E wrong \in WrongSet, correct \in CorrectSet, saved \in BOOLEAN :
       HandleAdd(wrong, correct, saved)
  \/ \E wrong \in WrongSet, saved \in BOOLEAN : HandleRemove(wrong, saved)
  \/ \E saved \in BOOLEAN : HandleClear(saved)
  \/ \E correct \in CorrectSet, text \in SaveContents, saved \in BOOLEAN :
       HandleSave(correct, text, saved)

Spec == Init /\ [][Next]_vars

\* the entries of the override list that are for wrong
EntriesFor(wrong) == {i \in 1..Len(custom_typos) : custom_typos[i][1] = wrong}

\* C8: after an add of (wrong, correct) the list holds one entry for wrong,
\* and it maps wrong to the correct just given.
C8_AddOverwrites ==
  last_op.name = "add" /\ last_op.status = "ok" =>
    /\ Cardinality(EntriesFor(last_op.wrong)) = 1
    /\ \A i \in EntriesFor(last_op.wrong) : custom_typos[i][2] = last_op.correct

\* C9: the override list holds at most one entry for each wrong.
C9_UniqueWrong ==
  \A i, j \in 1..Len(custom_typos) :
    custom_typos[i][1] = custom_typos[j][1] => i = j

\* an add or a save for a wrong that the loaded list already held, with
\* another entry in the list
C9_Witness ==
  /\ last_op.name \in {"add", "save"}
  /\ last_op.status = "ok"
  /\ \E i \in 1..Len(last_op.loaded) : last_op.loaded[i][1] = last_op.wrong
  /\ Len(custom_typos) >= 2

-----------------------------------------------------------------------------
(* Properties of find_corrections, read off the finished call *)

Done == pc = "done" /\ result.kind = "Some"

IsCustom(c) == c.reason = CustomReason
IsSimilar(c) == c.reason[1] = "similar to '"
IsBuiltin(c) == ~IsCustom(c) /\ ~IsSimilar(c)

Candidates == 1..Len(result.list)

\* the candidates of the override pass and of the two rule passes together
CustomCandidates == CustomPass(cmd, custom_typos)
RuleCandidates == BuiltinPass(cmd, common_fixes, CustomCandidates).list

\* rule i of the override list matches cmd, exactly or as a prefix
RuleMatches(i) ==
  LET wrong == custom_typos[i][1]
  IN \/ cmd = wrong
     \/ split_whitespace(cmd)[1] = wrong
     \/ StartsWith(cmd, wrong \o SP)

\* the position of the candidate of rule i: rule candidates all have
\* confidence 1.0 and the sort is stable, so override candidates come first
Position(i) == Cardinality({k \in 1..i : RuleMatches(k)})

\* the text of cmd behind its first n characters
Remainder(n) == SubSeq(cmd, n + 1, Len(cmd))

\* the tokens of cmd behind the first, rejoined with single spaces
RestTokens == join(Tail(split_whitespace(cmd)), SP)

\* C1 as stated: the first pass that yields a candidate wins; once an override
\* rule matches, the result holds override candidates only, and once the
\* built-in table yields a candidate the result holds no approximate one.
C1_FirstPassWins ==
  Done =>
    /\ CustomCandidates # <<>> => \A i \in Candidates : IsCustom(result.list[i])
    /\ (\E i \in Candidates : IsBuiltin(result.list[i]))
         => \A i \in Candidates : ~IsSimilar(result.list[i])

\* C1 amended: only the approximate pass is skipped; once an override rule
\* matches, or once the built-in table yields a candidate, the result holds no
\* approximate candidate (built-in candidates still join override candidates).
C1_RulePassesThenFuzzy ==
  Done =>
    /\ (\E k \in 1..Len(custom_typos) : RuleMatches(k))
         => \A i \in Candidates : ~IsSimilar(result.list[i])
    /\ (\E i \in Candidates : IsBuiltin(result.list[i]))
         => \A i \in Candidates : ~IsSimilar(result.list[i])

\* an override candidate and a built-in candidate in one result
C1_Witness ==
  /\ Done
  /\ CustomCandidates # <<>>
  /\ \E i \in Candidates : IsBuiltin(result.list[i])

\* C2: a result that holds an approximate candidate holds nothing else, and
\* comes from a call in which no override rule and no built-in entry matched.
C2_FuzzyOnlyWhenNoRule ==
  Done /\ (\E i \in Candidates : IsSimilar(result.list[i])) =>
    /\ \A j \in Candidates : IsSimilar(result.list[j])
    /\ \A k \in 1..Len(custom_typos) : ~RuleMatches(k)
    /\ \A k \in 1..Len(common_fixes) :
         /\ cmd # common_fixes[k][1]
         /\ split_whitespace(cmd)[1] # common_fixes[k][1]
         /\ ~StartsWith(cmd, common_fixes[k][1] \o SP)

\* an approximate result of a call that had override rules and built-ins
C2_Witness ==
  /\ Done
  /\ custom_typos # <<>>
  /\ common_fixes # <<>>
  /\ \E i \in Candidates : IsSimilar(result.list[i])

\* C3 as stated: a rule whose wrong, followed by a space, starts cmd yields
\* correct followed by the untouched remainder of cmd.
C3_PrefixKeepsRemainder ==
  Done =>
    \A i \in 1..Len(custom_typos) :
      LET wrong == custom_typos[i][1]
          correct == custom_typos[i][2]
      IN StartsWith(cmd, wrong \o SP) /\ Position(i) <= Len(result.list) =>
           result.list[Position(i)].fixed_cmd = correct \o Remainder(Len(wrong))

\* C3 amended: the same, for the rules that do not match exactly (wrong is
\* neither cmd nor its first token); the exact test is tried first.
C3_PrefixKeepsRemainderUnlessExact ==
  Done =>
    \A i \in 1..Len(custom_typos) :
      LET wrong == custom_typos[i][1]
          correct == custom_typos[i][2]
      IN /\ StartsWith(cmd, wrong \o SP)
         /\ split_whitespace(cmd)[1] # wrong
         /\ Position(i) <= Len(result.list)
         => result.list[Position(i)].fixed_cmd = correct \o Remainder(Len(wrong))

\* a prefix match whose remainder is more than the separator
C3_Witness ==
  /\ Done
  /\ \E i \in 1..Len(custom_typos) :
       /\ StartsWith(cmd, custom_typos[i][1] \o SP)
       /\ split_whitespace(cmd)[1] # custom_typos[i][1]
       /\ Len(cmd) > Len(custom_typos[i][1]) + 1
       /\ Position(i) <= Len(result.list)

\* C4: a rule that matches exactly yields correct when wrong is the whole cmd
\* or cmd has one token, else correct, a space and the other tokens rejoined
\* with single spaces; its reason is "custom fix" and its confidence 1.0.
C4_ExactMatchFix ==
  Done =>
    \A i \in 1..Len(custom_typos) :
      LET wrong == custom_typos[i][1]
          correct == custom_typos[i][2]
          whole == cmd = wrong
          first == split_whitespace(cmd)[1] = wrong
      IN (whole \/ first) /\ Position(i) <= Len(result.list) =>
           result.list[Position(i)] =
             [fixed_cmd |-> IF whole \/ Len(split_whitespace(cmd)) = 1
                              THEN correct
                              ELSE correct \o SP \o RestTokens,
              reason |-> <<"custom fix">>,
              confidence |-> <<1, 1, 0>>]

\* a first-token match with arguments behind uneven whitespace
C4_Witness ==
  /\ Done
  /\ \E i \in 1..Len(custom_typos) :
       /\ split_whitespace(cmd)[1] = custom_typos[i][1]
       /\ Len(split_whitespace(cmd)) > 1
       /\ cmd # custom_typos[i][1] \o SP \o RestTokens

\* the outcome of a call without the reasons: the kind and the fixed_cmds
Fixes(r) == <<r.kind, [i \in 1..Len(r.list) |-> r.list[i].fixed_cmd]>>

\* the call with the only override rule moved into the built-in table
AsBuiltin ==
  find_corrections(cmd, <<>>,
    << <<custom_typos[1][1], custom_typos[1][2], <<"Typo">> >> >>,
    get_common_commands)

\* C5: a rule gives the same fixed_cmd as the only override and as the only
\* built-in entry, and matches in the one place when it does in the other
\* (compared where the built-in call returns).
C5_BuiltinSameAsOverride ==
  /\ pc = "done" /\ Len(custom_typos) = 1 /\ common_fixes = <<>>
  /\ AsBuiltin.kind # "Panic"
  => Fixes(result) = Fixes(AsBuiltin)

\* C6: find_corrections returns None or a list, and never panics.
C6_NeverFails == pc = "done" => result.kind \in {"None", "Some"}

\* C10: a built-in candidate shares its fixed_cmd with no other candidate.
C10_BuiltinDeduplicated ==
  Done =>
    \A i, j \in Candidates :
      IsBuiltin(result.list[i]) /\ i # j
        => result.list[i].fixed_cmd # result.list[j].fixed_cmd

\* two rules with different wrong repeat one fixed_cmd, and the matching
\* built-in entry that yields it again is left out
C10_Witness ==
  /\ Done
  /\ \E i, j \in Candidates :
       /\ i < j
       /\ IsCustom(result.list[i]) /\ IsCustom(result.list[j])
       /\ result.list[i].fixed_cmd = result.list[j].fixed_cmd
  /\ custom_typos[1][1] # custom_typos[2][1]
  /\ \E k \in 1..Len(common_fixes) :
       /\ cmd = common_fixes[k][1]
       /\ \A i \in Candidates : result.list[i].reason # common_fixes[k][3]

-----------------------------------------------------------------------------
(* The approximate pass and the ranking, read off the finished call *)

\* no override rule and no built-in entry matches cmd
NoRuleMatches ==
  /\ \A k \in 1..Len(custom_typos) : ~RuleMatches(k)
  /\ \A k \in 1..Len(common_fixes) :
       /\ cmd # common_fixes[k][1]
       /\ split_whitespace(cmd)[1] # common_fixes[k][1]
       /\ ~StartsWith(cmd, common_fixes[k][1] \o SP)

\* the scores of the first token of cmd against the vocabulary
Scores == ScoreTable[TokenIndex(split_whitespace(cmd)[1])]

\* a score is exactly 0.85
Is085(score) == score[1] * 100 = 85 * score[2] /\ score[3] = 0

\* a score lies strictly between 0.85 and 1.0
InWindow(score) ==
  /\ \/ score[1] * 100 > 85 * score[2]
     \/ score[1] * 100 = 85 * score[2] /\ score[3] = 1
  /\ score[1] < score[2]

\* the vocabulary entries whose score lies in the window
Qualifying(sc) == {k \in 1..Len(sc) : InWindow(sc[k])}

\* the candidates of a finished call that did not panic
Returned == IF result.kind = "Some" THEN result.list ELSE <<>>

\* candidate r is the one vocabulary entry k stands for: the entry, then a
\* space and the args when there are args
IsCandidateOf(r, k, sc, rest) ==
  /\ r.reason = <<"similar to '">> \o get_common_commands[k] \o <<"'">>
  /\ r.confidence = sc[k]
  /\ r.fixed_cmd = IF rest = <<>> THEN get_common_commands[k]
                   ELSE get_common_commands[k] \o SP \o rest

\* C11: when no rule matches, the returned candidates are candidates of
\* vocabulary entries whose score is above 0.85 and below 1.0, each with the
\* entry plus the args as fixed_cmd, "similar to '<entry>'" as reason and the
\* score as confidence; every such entry is returned while at most 5 qualify.
C11_FuzzyWindow ==
  pc = "done" /\ result.kind # "Panic" /\ split_whitespace(cmd) # <<>>
    /\ NoRuleMatches =>
      LET sc == Scores
          q == Qualifying(sc)
          rest == RestTokens
      IN /\ \A i \in 1..Len(Returned) :
              \E k \in q : IsCandidateOf(Returned[i], k, sc, rest)
         /\ Cardinality(q) <= MaxSuggestions =>
              \A k \in q :
                \E i \in 1..Len(Returned) : IsCandidateOf(Returned[i], k, sc, rest)

\* an approximate result of a cmd one entry scores exactly 0.85 against
C11_Witness ==
  /\ Done
  /\ NoRuleMatches
  /\ LET sc == Scores
     IN /\ \E k \in 1..Len(sc) : Is085(sc[k])
        /\ \E k \in Qualifying(sc) :
             IsCandidateOf(result.list[1], k, sc, RestTokens)

\* the place of vocabulary entry k among the qualifying entries: behind the
\* entries of higher score and behind the earlier entries of the same score
Rank(k, sc, q) ==
  1 + Cardinality({l \in q : FracLess(sc[k], sc[l])
                                \/ (~FracLess(sc[l], sc[k]) /\ l < k)})

\* the built-in entry a built-in candidate comes from
EntryOf(r) == CHOOSE k \in 1..Len(common_fixes) : common_fixes[k][3] = r.reason

\* C12: the result is cut to 5 and ordered by confidence, highest first, with
\* equal confidences in discovery order.  An approximate result holds the
\* min(5, n) first of the n qualifying entries ordered by score, then by
\* vocabulary order.  A rule result has confidence 1.0 throughout: override
\* candidates in list order, then built-in candidates in table order.
C12_RankedAndCapped ==
  pc = "done" /\ result.kind # "Panic" =>
    /\ Len(Returned) <= MaxSuggestions
    /\ \A i, j \in 1..Len(Returned) :
         i < j => ~FracLess(Returned[i].confidence, Returned[j].confidence)
    /\ split_whitespace(cmd) # <<>> /\ NoRuleMatches =>
         LET sc == Scores
             q == Qualifying(sc)
             rest == RestTokens
         IN /\ Len(Returned) = Min(MaxSuggestions, Cardinality(q))
            /\ \A k \in q :
                 Rank(k, sc, q) <= MaxSuggestions =>
                   IsCandidateOf(Returned[Rank(k, sc, q)], k, sc, rest)
    /\ \A i, j \in 1..Len(Returned) :
         /\ IsCustom(Returned[i]) /\ IsBuiltin(Returned[j]) => i < j
         /\ IsBuiltin(Returned[i]) /\ IsBuiltin(Returned[j]) /\ i < j
              => EntryOf(Returned[i]) < EntryOf(Returned[j])
    /\ \A k \in 1..Len(custom_typos) :
         result.kind = "Some" /\ RuleMatches(k) /\ Position(k) <= MaxSuggestions =>
           /\ Position(k) <= Len(Returned)
           /\ IsCustom(Returned[Position(k)])
           /\ StartsWith(Returned[Position(k)].fixed_cmd, custom_typos[k][2])

\* more than 5 entries qualify, and the first one found is not the best
C12_Witness ==
  /\ Done
  /\ NoRuleMatches
  /\ LET sc == Scores
         q == Qualifying(sc)
     IN /\ Cardinality(q) > MaxSuggestions
        /\ Len(result.list) = MaxSuggestions
        /\ \E k, l \in q : k < l /\ Rank(l, sc, q) < Rank(k, sc, q)
        /\ \E k, l \in q :
             /\ k < l /\ ~FracLess(sc[k], sc[l]) /\ ~FracLess(sc[l], sc[k])
             /\ Rank(l, sc, q) <= MaxSuggestions

\* C13: find_corrections returns None when cmd has no token, whatever the
\* override list holds, and otherwise exactly when no rule matches and no
\* vocabulary entry qualifies; a returned list has between 1 and 5 entries.
C13_NoneIffNoCandidate ==
  pc = "done" /\ result.kind # "Panic" =>
    /\ result.kind \in {"None", "Some"}
    /\ split_whitespace(cmd) = <<>> => result.kind = "None"
    /\ split_whitespace(cmd) # <<>> =>
         (result.kind = "None" <=> NoRuleMatches /\ Qualifying(Scores) = {})
    /\ result.kind = "Some" =>
         Len(result.list) >= 1 /\ Len(result.list) <= MaxSuggestions
    /\ result.kind = "None" => result.list = <<>>

\* a cmd of whitespace only, with an override rule for exactly that text
C13_Witness ==
  /\ pc = "done"
  /\ cmd # <<>>
  /\ split_whitespace(cmd) = <<>>
  /\ \E k \in 1..Len(custom_typos) : custom_typos[k][1] = cmd
  /\ result.kind = "None"

-----------------------------------------------------------------------------
(* Properties of get_last_command, read off the finished call *)

\* the call is finished, and the file at the path the lookup gave was read
ReadFrom(path) ==
  /\ pc = "done"
  /\ path.ok
  /\ path.val \in env.files
  /\ content # Unreadable

\* the history file was found and read
HistoryRead == ReadFrom(get_history_path(env))

RECURSIVE SeqOf(_)
\* the elements of a set, one after the other
SeqOf(S) ==
  IF S = {} THEN <<>>
  ELSE LET x == CHOOSE y \in S : TRUE IN <<x>> \o SeqOf(S \ {x})

\* the paths a history file can have
PathList == SeqOf(AllPaths)

PathIndex(path) == CHOOSE k \in 1..Len(PathList) : PathList[k] = path

RECURSIVE ShellsFrom(_)
\* detect_shell_type of the paths from place k on
ShellsFrom(k) ==
  IF k > Len(PathList) THEN <<>>
  ELSE <<detect_shell_type(PathList[k])>> \o ShellsFrom(k + 1)

\* detect_shell_type of every path, computed once
ShellTable == ShellsFrom(1)

\* detect_shell_type(path)
ShellOfPath(path) == ShellTable[PathIndex(path)]

\* the shell the history file is taken to belong to
HistoryShell == ShellOfPath(get_history_path(env).val)

\* the lines of the history file
HistoryFile == lines(content)

\* a Bash/Zsh line counts: its content is not empty and does not start with wtf
Qualifies(line) ==
  LET c == BashLineCmd(line)
  IN c # <<>> /\ ~StartsWith(c, <<"w", "t", "f">>)

\* the last index of s
Last(s) == CHOOSE k \in s : \A l \in s : l <= k

\* C15: the Bash/Zsh parser returns the content of the last line of the file
\* that is not empty and does not start with wtf, every later line being
\* empty or a wtf invocation; for Zsh it fails with Empty on a file without
\* lines and with NoValidCommand when no line counts.
C15_LastQualifyingLine ==
  LET path == get_history_path(env)
  IN ReadFrom(path) =>
      LET shell == ShellOfPath(path.val)
          file == HistoryFile
          counting == {k \in 1..Len(file) : Qualifies(file[k])}
      IN shell \in {"Bash", "Zsh"} =>
           /\ last_command.ok <=> counting # {}
           /\ last_command.ok =>
                last_command.val = BashLineCmd(file[Last(counting)])
           /\ shell = "Zsh" /\ file = <<>> =>
                last_command.err = "Empty history"
           /\ shell = "Zsh" /\ file # <<>> /\ ~last_command.ok =>
                last_command.err = "No valid command found in history"

\* two lines that count and differ, behind them a line that does not count
\* or nothing: the later of the two is returned
C15_Witness ==
  /\ HistoryRead
  /\ HistoryShell \in {"Bash", "Zsh"}
  /\ last_command.ok
  /\ \E k, l \in 1..Len(HistoryFile) :
       /\ k < l
       /\ Qualifies(HistoryFile[k]) /\ Qualifies(HistoryFile[l])
       /\ BashLineCmd(HistoryFile[k]) # BashLineCmd(HistoryFile[l])
       /\ last_command.val = BashLineCmd(HistoryFile[l])

\* the length of the extended-history prefix ": <digits>:<digits>;" that line
\* begins with, 0 when it begins with none
PrefixLen(line) ==
  LET a == SubSeq(line, 3, Len(line))
      d1 == DigitRun(a)
      b == SubSeq(a, d1 + 2, Len(a))
      d2 == DigitRun(b)
  IN IF /\ StartsWith(line, <<":", " ">>)
        /\ d1 >= 1 /\ Len(a) > d1 /\ a[d1 + 1] = ":"
        /\ d2 >= 1 /\ Len(b) > d2 /\ b[d2 + 1] = ";"
       THEN 2 + d1 + 1 + d2 + 1
       ELSE 0

\* the command of a line: the text behind the prefix, else the trimmed line
Stripped(line) ==
  IF PrefixLen(line) > 0 THEN SubSeq(line, PrefixLen(line) + 1, Len(line))
  ELSE trim(line)

\* C16: the command the Bash/Zsh parser returns is the stripped text of a
\* line of the file, and it does not begin with a timestamp prefix.
C16_PrefixStripped ==
  HistoryRead /\ HistoryShell \in {"Bash", "Zsh"} /\ last_command.ok =>
    /\ \E k \in 1..Len(HistoryFile) : last_command.val = Stripped(HistoryFile[k])
    /\ PrefixLen(last_command.val) = 0

\* a Fish line counts: it holds a cmd field whose trimmed text is not empty
\* and does not start with wtf
FishQualifies(line) ==
  LET c == FishCapture(line)
  IN /\ c # <<>>
     /\ trim(c[1]) # <<>>
     /\ ~StartsWith(trim(c[1]), <<"w", "t", "f">>)

\* the parser of the shell finds a command in the file
ParseSucceeds(shell, file) ==
  IF shell = "PowerShell" THEN Len(file) >= 2
  ELSE IF shell = "Fish" THEN \E k \in 1..Len(file) : FishQualifies(file[k])
  ELSE \E k \in 1..Len(file) : Qualifies(file[k])

\* C17: a successful parse is returned as it is; a failed parse of a Bash
\* file gives the remedy (shopt -s histappend, PROMPT_COMMAND='history -a'),
\* that of a Zsh, Fish or PowerShell file the error of its parser.
C17_BashStaleOnly ==
  LET path == get_history_path(env)
  IN ReadFrom(path) =>
      LET shell == ShellOfPath(path.val)
          file == HistoryFile
      IN IF ParseSucceeds(shell, file) THEN last_command.ok
         ELSE /\ ~last_command.ok
              /\ last_command.err =
                   CASE shell = "Bash" ->
                          "History file is not up to date. Add this to your ~/.bashrc:\nshopt -s histappend\nPROMPT_COMMAND='history -a'"
                     [] shell = "PowerShell" -> "Not enough history"
                     [] shell = "Zsh" /\ file = <<>> -> "Empty history"
                     [] OTHER -> "No valid command found in history"

\* a Bash file that holds lines, none of which counts
C17_Witness ==
  /\ HistoryRead
  /\ HistoryShell = "Bash"
  /\ HistoryFile # <<>>
  /\ ~ParseSucceeds("Bash", HistoryFile)
  /\ ~last_command.ok

\* C18: for a PowerShell file of at least 2 lines the result is the line
\* before the last, without its leading and trailing whitespace; for a file of
\* fewer lines it is the error NotEnoughHistory.
C18_SecondToLast ==
  LET path == get_history_path(env)
  IN ReadFrom(path) =>
      LET file == HistoryFile
      IN ShellOfPath(path.val) = "PowerShell" =>
           IF Len(file) >= 2
             THEN last_command.ok /\ last_command.val = trim(file[Len(file) - 1])
             ELSE ~last_command.ok /\ last_command.err = "Not enough history"

\* a PowerShell file whose line before the last has whitespace around it and
\* differs from the last
C18_Witness ==
  /\ HistoryRead
  /\ HistoryShell = "PowerShell"
  /\ Len(HistoryFile) >= 2
  /\ HistoryFile[Len(HistoryFile) - 1] # trim(HistoryFile[Len(HistoryFile) - 1])
  /\ trim(HistoryFile[Len(HistoryFile) - 1]) # trim(HistoryFile[Len(HistoryFile)])
  /\ last_command.ok

\* C19: the Fish parser returns the trimmed cmd text of the last line that
\* holds a cmd field with text that is not blank and does not start with wtf,
\* every later cmd record being a wtf invocation or blank; it fails with
\* NoValidCommand when no line counts, as for an empty file.
C19_FishLastCommand ==
  LET path == get_history_path(env)
  IN ReadFrom(path) =>
      LET file == HistoryFile
          counting == {k \in 1..Len(file) : FishQualifies(file[k])}
      IN ShellOfPath(path.val) = "Fish" =>
           /\ last_command.ok <=> counting # {}
           /\ last_command.ok =>
                last_command.val = trim(FishCapture(file[Last(counting)])[1])
           /\ ~last_command.ok =>
                last_command.err = "No valid command found in history"

\* a Fish file whose last cmd record is a wtf invocation, behind a record
\* that counts
C19_Witness ==
  /\ HistoryRead
  /\ HistoryShell = "Fish"
  /\ last_command.ok
  /\ \E k, l \in 1..Len(HistoryFile) :
       /\ k < l
       /\ FishQualifies(HistoryFile[k])
       /\ FishCapture(HistoryFile[l]) # <<>>
       /\ StartsWith(trim(FishCapture(HistoryFile[l])[1]), <<"w", "t", "f">>)

\* the paths the lookup is to try outside Windows, in order: $HISTFILE when
\* it is set, then the three files under the home directory
PathCandidates ==
  (IF env.histfile # <<>> THEN <<env.histfile[1]>> ELSE <<>>)
    \o (IF env.home # <<>>
          THEN << env.home[1] \o <<"/", ".", "z", "s", "h", "_", "h", "i", "s", "t", "o", "r", "y">>,
                  env.home[1] \o <<"/", ".", "b", "a", "s", "h", "_", "h", "i", "s", "t", "o", "r", "y">>,
                  env.home[1] \o <<"/", ".", "l", "o", "c", "a", "l", "/", "s", "h", "a", "r", "e", "/", "f", "i", "s", "h", "/", "f", "i", "s", "h", "_", "h", "i", "s", "t", "o", "r", "y">> >>
          ELSE <<>>)

\* the candidates that exist
ExistingCandidates == {k \in 1..Len(PathCandidates) : PathCandidates[k] \in env.files}

\* C20: outside Windows the lookup yields the first candidate that exists,
\* $HISTFILE before the files of the home directory, whatever else the
\* environment holds; it fails only when no candidate exists, and then
\* get_last_command fails with the lookup's error.
C20_FirstExistingPath ==
  pc = "done" /\ ~env.windows =>
    IF ExistingCandidates = {}
      THEN ~get_history_path(env).ok /\ last_command = get_history_path(env)
      ELSE /\ get_history_path(env).ok
           /\ get_history_path(env).val =
                PathCandidates[CHOOSE k \in ExistingCandidates :
                                 \A l \in ExistingCandidates : k <= l]
           /\ last_command.err \notin
                {"Home directory not found", "No shell history file found",
                 "History file not found"}

\* word occurs in text
HasWord(text, word) ==
  \E k \in 0..(Len(text) - Len(word)) :
    \A i \in 1..Len(word) : text[k + i] = word[i]

\* the shell a path stands for, letters taken without regard to case:
\* powershell or consolehost_history, else fish, else zsh, else Bash
InferredShell(path) ==
  LET low == [i \in 1..Len(path) |-> Lower(path[i])]
  IN IF HasWord(low, <<"p", "o", "w", "e", "r", "s", "h", "e", "l", "l">>)
        \/ HasWord(low, <<"c", "o", "n", "s", "o", "l", "e", "h", "o", "s", "t", "_", "h", "i", "s", "t", "o", "r", "y">>)
       THEN "PowerShell"
     ELSE IF HasWord(low, <<"f", "i", "s", "h">>) THEN "Fish"
     ELSE IF HasWord(low, <<"z", "s", "h">>) THEN "Zsh"
     ELSE "Bash"

RECURSIVE InferredFrom(_)
\* the shells the paths from place k on stand for
InferredFrom(k) ==
  IF k > Len(PathList) THEN <<>>
  ELSE <<InferredShell(PathList[k])>> \o InferredFrom(k + 1)

\* the shell every path stands for, computed once
InferredTable == InferredFrom(1)

\* C21: the file that was read is parsed by the parser of the shell its path
\* stands for: PowerShell for a path that holds powershell or
\* consolehost_history in any case, else Fish for one that holds fish, else
\* Zsh for one that holds zsh, else Bash; Bash and Zsh share a parser, and a
\* failed parse of a Bash file gives the remedy instead of the parser's error.
C21_ShellFromPath ==
  LET path == get_history_path(env)
  IN ReadFrom(path) =>
      LET shell == InferredTable[PathIndex(path.val)]
          parsed == CASE shell = "PowerShell" -> parse_powershell_history(content)
                      [] shell = "Fish" -> parse_fish_history(content)
                      [] OTHER -> parse_bash_zsh_history(content)
      IN last_command =
           IF shell = "Bash" /\ ~parsed.ok THEN Err(BashStale) ELSE parsed

\* the file .zsh_history of the home directory /fisher, whose path holds fish
\* and zsh, with lines the Fish parser finds no command in and the Bash/Zsh
\* parser does
C21_Witness ==
  /\ HistoryRead
  /\ HasWord(get_history_path(env).val, <<"f", "i", "s", "h">>)
  /\ HasWord(get_history_path(env).val, <<"z", "s", "h">>)
  /\ parse_bash_zsh_history(content).ok
  /\ ~last_command.ok
  /\ last_command.err = "No valid command found in history"

------------------------------------------------------------------------------
(* Properties of the ranked list and of its confidences *)

\* override rule i matches cmd: wrong is cmd or its first token, or cmd
\* starts with wrong and a space
OverrideMatches(i) ==
  LET wrong == custom_typos[i][1]
      parts == split_whitespace(cmd)
  IN \/ cmd = wrong
     \/ parts # <<>> /\ parts[1] = wrong
     \/ StartsWith(cmd, wrong \o SP)

\* the fixed_cmd that matching rule i yields
OverrideFix(i) ==
  LET wrong == custom_typos[i][1]
      correct == custom_typos[i][2]
      parts == split_whitespace(cmd)
  IN IF cmd = wrong THEN correct
     ELSE IF parts # <<>> /\ parts[1] = wrong
       THEN IF Len(parts) = 1 THEN correct
            ELSE correct \o SP \o join(Tail(parts), SP)
     ELSE correct \o SubSeq(cmd, Len(wrong) + 1, Len(cmd))

\* C22: whenever an override rule matches cmd, the call returns a list that
\* is not empty; its first element is the override candidate of the first
\* matching rule, and the override candidates stand before the built-in ones.
C22_OverridesFirst ==
  LET matching == {i \in 1..Len(custom_typos) : OverrideMatches(i)}
  IN pc = "done" /\ matching # {} =>
       /\ result.kind = "Some"
       /\ result.list # <<>>
       /\ IsCustom(result.list[1])
       /\ result.list[1].fixed_cmd =
            OverrideFix(CHOOSE i \in matching : \A j \in matching : i <= j)
       /\ \A k, l \in 1..Len(result.list) :
            IsCustom(result.list[k]) /\ IsBuiltin(result.list[l]) => k < l

\* a confidence is exactly 1.0
IsOne(score) == score[1] = score[2] /\ score[3] = 0

\* C23: a returned list is of one kind: either every candidate comes from a
\* rule and has confidence exactly 1.0, or every candidate is an approximate
\* match with a confidence strictly between 0.85 and 1.0; every confidence
\* lies between 0 and 1.
C23_ConfidenceByKind ==
  Done =>
    /\ \A i \in Candidates :
         /\ ~FracLess(result.list[i].confidence, <<0, 1, 0>>)
         /\ ~FracLess(One, result.list[i].confidence)
    /\ \/ \A i \in Candidates :
            ~IsSimilar(result.list[i]) /\ IsOne(result.list[i].confidence)
       \/ \A i \in Candidates :
            IsSimilar(result.list[i]) /\ InWindow(result.list[i].confidence)

\* an approximate result of several candidates, one of them with the lowest
\* confidence that is accepted, computed while override rules and built-in
\* entries were there and did not match
C23_Witness ==
  /\ Done
  /\ custom_typos # <<>>
  /\ common_fixes # <<>>
  /\ Len(result.list) >= 2
  /\ \E i \in Candidates :
       /\ IsSimilar(result.list[i])
       /\ result.list[i].confidence[1] * 100 = 85 * result.list[i].confidence[2]

------------------------------------------------------------------------------
(* Properties of the fix flow, read off the finished invocation *)

\* the prompt was reached: there was a last command and a list of candidates
PromptReached == last_command.ok /\ result.kind = "Some"

\* the number the answer stands for, as Some(number) or None: surrounding
\* whitespace, a + sign and leading zeros do not count
AnswerNumber ==
  IF last_fix.input = BadInput THEN <<>>
  ELSE parse_usize(trim(last_fix.input))

\* C24: an invocation executes at most one command, and only when there was
\* a last command and a list of candidates that is not empty; it executes the
\* first candidate when auto_yes is set or the answer is the empty line, the
\* candidate k for an answer k between 1 and the length of the list, and
\* nothing for every other answer.
C24_ExecutesChosenFix ==
  pc = "done" =>
    /\ Len(last_fix.executed) <= 1
    /\ last_fix.executed # <<>> => PromptReached /\ result.list # <<>>
    /\ PromptReached =>
         IF last_fix.auto_yes \/ last_fix.input = <<"\n">>
           THEN last_fix.executed = <<result.list[1].fixed_cmd>>
         ELSE IF /\ AnswerNumber # <<>>
                 /\ AnswerNumber[1] >= 1
                 /\ AnswerNumber[1] <= Len(result.list)
           THEN last_fix.executed = <<result.list[AnswerNumber[1]].fixed_cmd>>
         ELSE last_fix.executed = <<>>

------------------------------------------------------------------------------
(* Properties of wtf remove, read off the finished invocation *)

\* the list the invocation loaded holds an entry for the wrong it was given
HadEntry == \E i \in 1..Len(last_op.loaded) : last_op.loaded[i][1] = last_op.wrong

\* an entry for another wrong than the one given
IsOther(entry) == entry[1] # last_op.wrong

\* C25: remove reports "not found" exactly when the loaded list held no entry
\* for wrong, and then nothing is saved and the list stays as it was; a
\* removal that is saved leaves the other entries, in their order, and no
\* entry for wrong; a removal whose save failed leaves the saved list as it was.
C25_RemoveExactlyWrong ==
  last_op.name = "remove" =>
    /\ last_op.status = "not found" <=> ~HadEntry
    /\ last_op.status = "not found" => custom_typos = last_op.loaded
    /\ last_op.status = "ok" =>
         /\ custom_typos = SelectSeq(last_op.loaded, IsOther)
         /\ \A i \in 1..Len(custom_typos) : custom_typos[i][1] # last_op.wrong
    /\ last_op.status = "save failed" => custom_typos = last_op.loaded
    /\ last_op.status \in {"not found", "ok", "save failed"}

\* the first of two entries was removed and the second is what is left
C25_Witness ==
  /\ last_op.name = "remove"
  /\ last_op.status = "ok"
  /\ Len(last_op.loaded) = 2
  /\ last_op.loaded[1][1] = last_op.wrong
  /\ custom_typos = <<last_op.loaded[2]>>

====
